---- MODULE Spec2Model ----
(***************************************************************************)
(* Model of streamlit_app.py: an uploaded workbook is turned into a PDF of *)
(* bar charts, one page per numeric column of every non-empty sheet, with  *)
(* one error page for a sheet whose rendering raised.                      *)
(*                                                                         *)
(* The state is the script's state during one run: the uploaded workbook,  *)
(* the chosen colourway, the position in the sheet loop and in the column  *)
(* loop of render_sheet_to_pdf, the pages saved to the PdfPages object and *)
(* the number of matplotlib figures that are open.                         *)
(*                                                                         *)
(* The title separator of the source is an en dash; it is written " - "    *)
(* here because the module is ASCII.                                       *)
(***************************************************************************)
EXTENDS Integers, Sequences, FiniteSets, TLC

VARIABLES
    uploaded,       \* the uploaded file: [ok, sheets]
    colour_choice,  \* key of colourways chosen in the selectbox
    pc,             \* position of the script
    sheet_idx,      \* position of the sheet loop (line 143), 1-based
    df,             \* the DataFrame inside render_sheet_to_pdf
    cat_col,        \* render_sheet_to_pdf's cat_col
    categories,     \* render_sheet_to_pdf's categories
    value_cols,     \* render_sheet_to_pdf's value_cols
    col_idx,        \* position of the column loop (line 63), 1-based
    pdf,            \* pages saved to the PdfPages object, in order
    figs,           \* number of open matplotlib figures
    exc             \* message of the exception being handled, "" if none

vars == <<uploaded, colour_choice, pc, sheet_idx, df, cat_col, categories,
          value_cols, col_idx, pdf, figs, exc>>

----------------------------------------------------------------------------
(* Bounds of the model *)

MaxSheets == 2
MaxCols == 3
MaxRows == 2
BookCols == 2
PaletteRows == 4

----------------------------------------------------------------------------
(* Cells and columns *)

Num(n) == [t |-> "num", n |-> n, s |-> ""]
NaN == [t |-> "nan", n |-> 0, s |-> ""]
Txt(s) == [t |-> "str", n |-> 0, s |-> s]

None == ""

EmptyDf == [nrows |-> 0, columns |-> <<>>]

ColumnNames(d) == [k \in 1..Len(d.columns) |-> d.columns[k].name]

HasColumn(d, name) == \E k \in 1..Len(d.columns) : d.columns[k].name = name

Column(d, name) ==
    d.columns[CHOOSE k \in 1..Len(d.columns) : d.columns[k].name = name]

\* pd.api.types.is_numeric_dtype: int and float columns (NaN is a float)
is_numeric_dtype(c) == \A r \in 1..Len(c.vals) : c.vals[r].t \in {"num", "nan"}

\* DataFrame.empty: an axis of length 0
IsEmpty(d) == d.nrows = 0 \/ Len(d.columns) = 0

\* Series.astype(str), cell by cell
astype_str(vals) ==
    [r \in 1..Len(vals) |->
        CASE vals[r].t = "str" -> vals[r].s
          [] vals[r].t = "num" -> ToString(vals[r].n)
          [] OTHER -> "nan"]

\* df.index.astype(str): the RangeIndex read_excel gives, 0-based
IndexAsStr(d) == [r \in 1..d.nrows |-> Txt(ToString(r - 1))]

----------------------------------------------------------------------------
(* Colourways *)

colourways ==
    [BlauGrau     |-> <<"#002060", "#0050b3", "#7f7f7f">>,
     GruenTuerkis |-> <<"#006400", "#009999", "#a6a6a6">>,
     LilaBeere    |-> <<"#4B004B", "#732673", "#B380B3">>,
     OrangeGrau   |-> <<"#E46C0A", "#F4B183", "#7f7f7f">>]

selected_colors == colourways[colour_choice]

----------------------------------------------------------------------------
(* Helper functions of the script *)

RECURSIVE FirstNonNumericFrom(_, _)
FirstNonNumericFrom(d, k) ==
    IF k > Len(d.columns) THEN None
    ELSE IF ~is_numeric_dtype(d.columns[k]) THEN d.columns[k].name
    ELSE FirstNonNumericFrom(d, k + 1)

\* A variant that scans from the last column (used to test C6)
RECURSIVE LastNonNumericFrom(_, _)
LastNonNumericFrom(d, k) ==
    IF k < 1 THEN None
    ELSE IF ~is_numeric_dtype(d.columns[k]) THEN d.columns[k].name
    ELSE LastNonNumericFrom(d, k - 1)

find_category_column_last(d) == LastNonNumericFrom(d, Len(d.columns))

find_category_column(d) == FirstNonNumericFrom(d, 1)

\* df["Index"] = df.index.astype(str): replaces a column of that name in
\* place, appends the column otherwise
SetIndexColumn(d) ==
    LET new == [name |-> "Index", vals |-> IndexAsStr(d)] IN
    IF HasColumn(d, "Index")
    THEN [d EXCEPT !.columns =
            [k \in 1..Len(d.columns) |->
                IF d.columns[k].name = "Index" THEN new ELSE d.columns[k]]]
    ELSE [d EXCEPT !.columns = Append(d.columns, new)]

\* lines 54-58
CategoryFrame(d) ==
    IF find_category_column(d) = None THEN SetIndexColumn(d) ELSE d

CategoryColumn(d) ==
    IF find_category_column(d) = None THEN "Index" ELSE find_category_column(d)

\* line 61
ValueCols(d) ==
    LET num(c) == is_numeric_dtype(c) IN
    ColumnNames([d EXCEPT !.columns = SelectSeq(d.columns, num)])

\* A variant that probes _SD before _Fehler (used to test C8)
CandidatesSdFirst(col) == <<col \o "_SD", col \o "_Fehler", col \o "_Error">>

\* line 66
Candidates(col) == <<col \o "_Fehler", col \o "_SD", col \o "_Error">>

RECURSIVE FirstCandidate(_, _, _)
FirstCandidate(d, cands, k) ==
    IF k > Len(cands) THEN None
    ELSE IF HasColumn(d, cands[k]) THEN cands[k]
    ELSE FirstCandidate(d, cands, k + 1)

\* lines 65-69
ErrorCol(d, col) == FirstCandidate(d, Candidates(col), 1)

\* Python's max over the cells: comparisons with NaN are False
Gt(a, b) == a.t = "num" /\ b.t = "num" /\ a.n > b.n

RECURSIVE PyMaxFrom(_, _, _)
PyMaxFrom(vals, k, m) ==
    IF k > Len(vals) THEN m
    ELSE PyMaxFrom(vals, k + 1, IF Gt(vals[k], m) THEN vals[k] ELSE m)

PyMax(vals) == PyMaxFrom(vals, 2, vals[1])

\* A variant whose cycle starts one colour late (used to test C9)
BarColorsShifted(colors, cats) ==
    [k \in 1..Len(cats) |-> colors[(k % Len(colors)) + 1]]

\* line 82
BarColors(colors, cats) ==
    [k \in 1..Len(cats) |-> colors[((k - 1) % Len(colors)) + 1]]

\* line 103
Title(sheet_label, col) == sheet_label \o " - " \o col

NoPage ==
    [kind |-> "none", sheet |-> "", col |-> "", title |-> "",
     categories |-> <<>>, values |-> <<>>, error_col |-> None,
     errors |-> <<>>, color |-> <<>>, ylim |-> <<0, 0>>, text |-> ""]

\* lines 64-123 for one column: the page saved, or the exception raised
\* after the figure was opened (line 74) and before it is saved (line 122)
ChartColumnResult(d, sheet_label, colors, cats, col) ==
    LET error_col == ErrorCol(d, col)
        values == Column(d, col).vals
        errors == IF error_col # None THEN Column(d, error_col).vals ELSE <<>>
        top == IF Len(values) > 0 THEN PyMax(values) ELSE Num(1)
    IN  IF \E r \in 1..Len(errors) : errors[r].t = "str"
        THEN [ok |-> FALSE, page |-> NoPage,
              msg |-> "TypeError: bad operand type for unary -: 'str'"]
        ELSE IF top.t # "num"
        THEN [ok |-> FALSE, page |-> NoPage,
              msg |-> "ValueError: Axis limits cannot be NaN or Inf"]
        ELSE [ok |-> TRUE, msg |-> "",
              page |-> [NoPage EXCEPT
                  !.kind = "chart", !.sheet = sheet_label, !.col = col,
                  !.title = Title(sheet_label, col), !.categories = cats,
                  !.values = values, !.error_col = error_col,
                  !.errors = errors, !.color = BarColors(colors, cats),
                  !.ylim = <<0, IF Len(values) > 0 THEN (top.n * 12) \div 10
                                                   ELSE 1>>]]

\* A variant that puts the new page first (used to test C4)
savefig_first(pages, page) == <<page>> \o pages

\* lines 122 and 154: pdf.savefig appends a page
savefig(pages, page) == Append(pages, page)

\* lines 150-153
ErrorPage(sheet, e) ==
    [NoPage EXCEPT !.kind = "error", !.sheet = sheet,
        !.text = "Fehler in Sheet '" \o sheet \o "':\n" \o e]

----------------------------------------------------------------------------
(* Inputs *)

Names == {"Index", "A", "A_Fehler", "A_SD", "A_Error"}
Kinds == {"text", "num", "nan"}

\* The cells of a column of n rows: text labels (the column's name and the
\* row), numbers, or numbers after a blank (NaN) first cell
Cells(name, kind, n) ==
    [r \in 1..n |->
        CASE kind = "text" -> Txt(name \o "." \o ToString(r))
          [] kind = "nan" /\ r = 1 -> NaN
          [] OTHER -> Num(10 * r)]

Injective(f) == \A a, b \in DOMAIN f : f[a] = f[b] => a = b

\* read_excel gives distinct column names (duplicates are renamed)
NameSeqs(names, maxCols) ==
    UNION {{f \in [1..c -> names] : Injective(f)} : c \in 0..maxCols}

\* The frames of up to maxCols columns and maxRows rows, each described by
\* its column names, the kind of every column and its number of rows
Shapes(names, maxCols, maxRows) ==
    UNION {{ns} \X [1..Len(ns) -> Kinds] \X (0..maxRows) :
            ns \in NameSeqs(names, maxCols)}

\* The frame of a shape; a frame without columns has no rows
FrameOf(shape) ==
    LET ns == shape[1]
        ks == shape[2]
        n == IF Len(ns) = 0 THEN 0 ELSE shape[3]
    IN  [nrows |-> n,
         columns |-> [k \in 1..Len(ns) |->
                        [name |-> ns[k], vals |-> Cells(ns[k], ks[k], n)]]]

SheetName(k) == "S" \o ToString(k)

\* A sheet that cannot be decoded has no frame
SheetOf(k, shape, readable) ==
    [name |-> SheetName(k), readable |-> readable,
     df |-> IF readable THEN FrameOf(shape) ELSE EmptyDf]

\* The uploaded file is not a workbook, or is a workbook of 1..nmax sheets
InitWith(nmax, shapes, choices) ==
    /\ \/ uploaded = [ok |-> FALSE, sheets |-> <<>>]
       \/ \E n \in 1..nmax :
            \E w \in [1..n -> shapes], rd \in [1..n -> BOOLEAN] :
                uploaded = [ok |-> TRUE,
                            sheets |-> [k \in 1..n |->
                                          SheetOf(k, w[k], rd[k])]]
    /\ colour_choice \in choices
    /\ pc = "uploaded"
    /\ sheet_idx = 1
    /\ df = EmptyDf
    /\ cat_col = None
    /\ categories = <<>>
    /\ value_cols = <<>>
    /\ col_idx = 1
    /\ pdf = <<>>
    /\ figs = 0
    /\ exc = ""

\* One sheet: every frame of up to MaxCols columns and MaxRows rows
Init == InitWith(1, Shapes(Names, MaxCols, MaxRows), DOMAIN colourways)

\* Up to MaxSheets sheets: frames of a series and its error column, of up to
\* BookCols columns and one row
InitBook ==
    InitWith(MaxSheets, Shapes({"A", "A_SD"}, BookCols, 1), DOMAIN colourways)

\* Up to MaxSheets sheets: frames of one column and up to PaletteRows rows,
\* more rows than a colourway has colours
InitPalette ==
    InitWith(MaxSheets, Shapes({"A"}, 1, PaletteRows), DOMAIN colourways)

----------------------------------------------------------------------------
(* Steps of the script *)

xls_sheet_names == [k \in 1..Len(uploaded.sheets) |-> uploaded.sheets[k].name]

LeaveRender ==
    /\ df' = EmptyDf
    /\ cat_col' = None
    /\ categories' = <<>>
    /\ value_cols' = <<>>
    /\ col_idx' = 1

\* lines 131-136: pd.ExcelFile(uploaded), st.stop() when it raises
OpenExcelFile ==
    /\ pc = "uploaded"
    /\ pc' = IF uploaded.ok THEN "listed" ELSE "stopped"
    /\ UNCHANGED <<uploaded, colour_choice, sheet_idx, df, cat_col,
                   categories, value_cols, col_idx, pdf, figs, exc>>

\* lines 140-142: the button is pressed, the PdfPages object is opened
ClickGenerate ==
    /\ pc = "listed"
    /\ pc' = "loop"
    /\ sheet_idx' = 1
    /\ pdf' = <<>>
    /\ UNCHANGED <<uploaded, colour_choice, df, cat_col, categories,
                   value_cols, col_idx, figs, exc>>

\* lines 143-148 and 54-61: the next sheet is read; read_excel is outside
\* the try block, an empty frame is skipped, otherwise render_sheet_to_pdf
\* is entered and runs up to its column loop
ReadSheet ==
    /\ pc = "loop"
    /\ sheet_idx <= Len(xls_sheet_names)
    /\ LET sheet == uploaded.sheets[sheet_idx] IN
        \/ /\ ~sheet.readable
           /\ pc' = "aborted"
           /\ UNCHANGED <<sheet_idx, df, cat_col, categories, value_cols,
                          col_idx>>
        \/ /\ sheet.readable
           /\ IsEmpty(sheet.df)
           /\ sheet_idx' = sheet_idx + 1
           /\ UNCHANGED <<pc, df, cat_col, categories, value_cols, col_idx>>
        \/ /\ sheet.readable
           /\ ~IsEmpty(sheet.df)
           /\ pc' = "render"
           /\ df' = CategoryFrame(sheet.df)
           /\ cat_col' = CategoryColumn(sheet.df)
           /\ categories' = astype_str(Column(df', cat_col').vals)
           /\ value_cols' = ValueCols(df')
           /\ col_idx' = 1
           /\ UNCHANGED sheet_idx
    /\ UNCHANGED <<uploaded, colour_choice, pdf, figs, exc>>

\* lines 63-123: one pass of the column loop; a pass that raises leaves its
\* figure open and control goes to the except clause of line 149
ChartColumn ==
    /\ pc = "render"
    /\ col_idx <= Len(value_cols)
    /\ LET res == ChartColumnResult(df, xls_sheet_names[sheet_idx],
                                    selected_colors, categories,
                                    value_cols[col_idx]) IN
        \/ /\ res.ok
           /\ pdf' = savefig(pdf, res.page)
           /\ col_idx' = col_idx + 1
           /\ UNCHANGED <<pc, figs, exc>>
        \/ /\ ~res.ok
           /\ figs' = figs + 1
           /\ exc' = res.msg
           /\ pc' = "except"
           /\ UNCHANGED <<pdf, col_idx>>
    /\ UNCHANGED <<uploaded, colour_choice, sheet_idx, df, cat_col,
                   categories, value_cols>>

\* the column loop is over: render_sheet_to_pdf returns, next sheet
ReturnFromRender ==
    /\ pc = "render"
    /\ col_idx > Len(value_cols)
    /\ pc' = "loop"
    /\ sheet_idx' = sheet_idx + 1
    /\ LeaveRender
    /\ UNCHANGED <<uploaded, colour_choice, pdf, figs, exc>>

\* A variant whose except clause lets the exception end the run (used to
\* test C3)
HandleSheetErrorReraise ==
    /\ pc = "except"
    /\ pc' = "aborted"
    /\ UNCHANGED <<uploaded, colour_choice, sheet_idx, df, cat_col,
                   categories, value_cols, col_idx, pdf, figs, exc>>

\* lines 149-155: the error page is drawn on a figure of its own, saved,
\* and that figure is closed; next sheet
HandleSheetError ==
    /\ pc = "except"
    /\ pdf' = savefig(pdf, ErrorPage(xls_sheet_names[sheet_idx], exc))
    /\ exc' = ""
    /\ pc' = "loop"
    /\ sheet_idx' = sheet_idx + 1
    /\ LeaveRender
    /\ UNCHANGED <<uploaded, colour_choice, figs>>

\* lines 157-163: the loop is over, the PDF is offered for download
Finish ==
    /\ pc = "loop"
    /\ sheet_idx > Len(xls_sheet_names)
    /\ pc' = "done"
    /\ UNCHANGED <<uploaded, colour_choice, sheet_idx, df, cat_col,
                   categories, value_cols, col_idx, pdf, figs, exc>>

Next ==
    \/ OpenExcelFile
    \/ ClickGenerate
    \/ ReadSheet
    \/ ChartColumn
    \/ ReturnFromRender
    \/ HandleSheetError
    \/ Finish

Spec == Init /\ [][Next]_vars

SpecBook == InitBook /\ [][Next]_vars

SpecPalette == InitPalette /\ [][Next]_vars

----------------------------------------------------------------------------
(* Vocabulary of the properties *)

Sheet(k) == uploaded.sheets[k]

SheetPos(name) == CHOOSE k \in 1..Len(uploaded.sheets) : Sheet(k).name = name

\* the frame read_excel returned for the sheet a page names
FrameOfPage(p) == Sheet(SheetPos(p.sheet)).df

ColPos(d, name) == CHOOSE k \in 1..Len(d.columns) : d.columns[k].name = name

ChartPages == {a \in DOMAIN pdf : pdf[a].kind = "chart"}

ErrorPages == {a \in DOMAIN pdf : pdf[a].kind = "error"}

PagesOfSheet(name) == LET of(p) == p.sheet = name IN SelectSeq(pdf, of)

NumericCols(d) == {k \in 1..Len(d.columns) : is_numeric_dtype(d.columns[k])}

TextCols(d) == (1..Len(d.columns)) \ NumericCols(d)

\* the sheet at sheet_idx has been read and its frame is being rendered
InRender == pc \in {"render", "except"}

\* sheet k has been dealt with: skipped, rendered, or given its error page
Processed(k) == k < sheet_idx

Ended == pc \in {"done", "aborted", "stopped"}

RowPositions(n) == [r \in 1..n |-> ToString(r - 1)]

----------------------------------------------------------------------------
(* C1 *)

\* C1: all-or-nothing per sheet: a sheet with an error page contributes that
\* error page and nothing else, so no chart page of the sheet is in the
\* output.  The column loop saves each page as it goes and the except clause
\* only appends, so this is violated.
C1_AllOrNothing ==
    \A a \in ErrorPages : \A b \in DOMAIN pdf :
        pdf[b].sheet = pdf[a].sheet => b = a

----------------------------------------------------------------------------
(* C2 *)

\* C2: a column bound as the error column of a numeric column X (X_Fehler,
\* X_SD or X_Error, the first that exists) is never the series of a chart
\* page.  value_cols holds every numeric column, so this is violated.
C2_ErrorColumnNotCharted ==
    \A a \in ChartPages :
        LET d == FrameOfPage(pdf[a]) IN
        \A k \in NumericCols(d) :
            ErrorCol(d, d.columns[k].name) # pdf[a].col

----------------------------------------------------------------------------
(* C5 *)

\* C5: a run is aborted by a decoding failure only before any sheet has
\* been processed, and an aborted run has produced no pages.  read_excel is
\* called for every sheet inside the loop, so this is violated.
C5_AbortOnlyBeforeFirstSheet ==
    pc = "aborted" => sheet_idx = 1 /\ pdf = <<>>

----------------------------------------------------------------------------
(* C7 *)

\* C7: for a frame whose columns are all numeric, whatever their names, the
\* category labels are the row positions as strings and every column of
\* the frame is in value_cols, in declared order.  A column named "Index"
\* is overwritten by the synthetic category, so this is violated.
C7_AllNumericKeepsEveryColumn ==
    InRender /\ TextCols(Sheet(sheet_idx).df) = {} =>
        /\ categories = RowPositions(Sheet(sheet_idx).df.nrows)
        /\ value_cols = ColumnNames(Sheet(sheet_idx).df)

----------------------------------------------------------------------------
(* C10 *)

\* C10: when the run has ended no figure is open.  A pass of the column
\* loop that raises never reaches plt.close(fig), so this is violated.
C10_NoFigureOpenAtEnd == Ended => figs = 0

----------------------------------------------------------------------------
(* C3 *)

\* What render_sheet_to_pdf and the except clause give for one frame taken
\* on its own: the chart pages up to the first column that raises, then the
\* error page
RECURSIVE PagesFrom(_, _, _, _, _, _)
PagesFrom(d, label, colors, cats, cols, j) ==
    IF j > Len(cols) THEN <<>>
    ELSE LET res == ChartColumnResult(d, label, colors, cats, cols[j]) IN
         IF res.ok
         THEN <<res.page>> \o PagesFrom(d, label, colors, cats, cols, j + 1)
         ELSE <<ErrorPage(label, res.msg)>>

PagesAlone(sheet, colors) ==
    IF IsEmpty(sheet.df) THEN <<>>
    ELSE LET d == CategoryFrame(sheet.df) IN
         PagesFrom(d, sheet.name, colors,
                   astype_str(Column(d, CategoryColumn(sheet.df)).vals),
                   ValueCols(d), 1)

\* C3: failure isolation between sheets: the pages every processed sheet
\* contributes are the pages that sheet gives on its own, whatever happened
\* to the other sheets, and a run is only ever aborted by a sheet that cannot
\* be decoded, never by a rendering failure: after the except clause the
\* loop goes on with the next sheet.
C3_FailureIsolation ==
    /\ \A k \in 1..Len(uploaded.sheets) :
         Processed(k) =>
            PagesOfSheet(Sheet(k).name) = PagesAlone(Sheet(k), selected_colors)
    /\ pc = "aborted" => ~Sheet(sheet_idx).readable
    /\ pc = "done" => sheet_idx = Len(uploaded.sheets) + 1

\* the first sheet failed in rendering and the second sheet still gave its
\* chart page
C3_Witness ==
    /\ pc = "done"
    /\ Len(uploaded.sheets) = 2
    /\ \E a \in ErrorPages : pdf[a].sheet = Sheet(1).name
    /\ \E b \in ChartPages : pdf[b].sheet = Sheet(2).name

----------------------------------------------------------------------------
(* C4 *)

RECURSIVE ConcatSheets(_)
ConcatSheets(k) ==
    IF k = 0 THEN <<>>
    ELSE ConcatSheets(k - 1) \o PagesOfSheet(Sheet(k).name)

\* C4: page order: the pages are in workbook order of their sheets (the
\* document is the concatenation of the sheets' pages), the chart pages of
\* one sheet are in the declared order of their columns, and every page
\* belongs to a sheet that was read and is not empty.
C4_PageOrder ==
    /\ \A a, b \in DOMAIN pdf :
         a < b => SheetPos(pdf[a].sheet) <= SheetPos(pdf[b].sheet)
    /\ \A a, b \in ChartPages :
         a < b /\ pdf[a].sheet = pdf[b].sheet =>
            ColPos(FrameOfPage(pdf[a]), pdf[a].col)
                < ColPos(FrameOfPage(pdf[b]), pdf[b].col)
    /\ \A a \in DOMAIN pdf :
         /\ \E k \in 1..Len(uploaded.sheets) : Sheet(k).name = pdf[a].sheet
         /\ ~IsEmpty(FrameOfPage(pdf[a]))
    /\ pdf = ConcatSheets(Len(uploaded.sheets))

\* an empty first sheet, then a sheet that gave two chart pages
C4_Witness ==
    /\ pc = "done"
    /\ Len(uploaded.sheets) = 2
    /\ Sheet(1).readable /\ IsEmpty(Sheet(1).df)
    /\ Len(pdf) = 2
    /\ ChartPages = {1, 2}

----------------------------------------------------------------------------
(* C6 *)

IsFirstTextCol(d, k) ==
    /\ k \in TextCols(d)
    /\ \A q \in 1..(k - 1) : q \in NumericCols(d)

\* C6: for a frame with a non-numeric column, the category column is the
\* first non-numeric column in declared order: cat_col names it while the
\* sheet is rendered, it is not in value_cols, and every chart page of the
\* sheet carries that column's cells as its category labels and charts
\* another column.
C6_FirstNonNumericIsCategory ==
    /\ InRender /\ TextCols(Sheet(sheet_idx).df) # {} =>
         /\ \E k \in 1..Len(Sheet(sheet_idx).df.columns) :
              /\ IsFirstTextCol(Sheet(sheet_idx).df, k)
              /\ cat_col = Sheet(sheet_idx).df.columns[k].name
         /\ \A j \in DOMAIN value_cols : value_cols[j] # cat_col
    /\ \A a \in ChartPages :
         LET d == FrameOfPage(pdf[a]) IN
         \A k \in 1..Len(d.columns) :
            IsFirstTextCol(d, k) =>
                /\ pdf[a].categories = astype_str(d.columns[k].vals)
                /\ pdf[a].col # d.columns[k].name

\* a chart page of a sheet whose first column is numeric and which has two
\* non-numeric columns
C6_Witness ==
    \E a \in ChartPages :
        LET d == FrameOfPage(pdf[a]) IN
        /\ Cardinality(TextCols(d)) = 2
        /\ 1 \in NumericCols(d)

----------------------------------------------------------------------------
(* C8 *)

\* the error column of col by the stated priority
PriorityErrorCol(d, col) ==
    IF HasColumn(d, col \o "_Fehler") THEN col \o "_Fehler"
    ELSE IF HasColumn(d, col \o "_SD") THEN col \o "_SD"
    ELSE IF HasColumn(d, col \o "_Error") THEN col \o "_Error"
    ELSE None

\* C8: error-column priority: the error series of every chart page is the
\* column X_Fehler if the sheet has one, otherwise X_SD, otherwise X_Error,
\* and the page has no error series when the sheet has none of them.
C8_ErrorColumnPriority ==
    \A a \in ChartPages :
        LET d == FrameOfPage(pdf[a])
            e == PriorityErrorCol(d, pdf[a].col)
        IN  /\ pdf[a].error_col = e
            /\ pdf[a].errors = IF e = None THEN <<>> ELSE Column(d, e).vals

\* a chart page of A in a sheet that has A_Fehler and A_SD, with the cells
\* of A_Fehler as its error series
C8_Witness ==
    \E a \in ChartPages :
        LET d == FrameOfPage(pdf[a]) IN
        /\ pdf[a].col = "A"
        /\ HasColumn(d, "A_Fehler") /\ HasColumn(d, "A_SD")
        /\ pdf[a].errors = Column(d, "A_Fehler").vals
        /\ d.nrows > 0

----------------------------------------------------------------------------
(* C9 *)

\* C9: palette cycling: in every chart page the bar of category index i
\* (0-based) has the colour i mod P of the chosen colourway, P its length;
\* so the colour of an index is the same in every chart of the run.
C9_PaletteCycling ==
    /\ \A a \in ChartPages :
         /\ Len(pdf[a].color) = Len(pdf[a].categories)
         /\ \A i \in 0..(Len(pdf[a].categories) - 1) :
              pdf[a].color[i + 1] =
                colourways[colour_choice]
                    [(i % Len(colourways[colour_choice])) + 1]
    /\ \A a, b \in ChartPages :
         \A i \in DOMAIN pdf[a].color \cap DOMAIN pdf[b].color :
            pdf[a].color[i] = pdf[b].color[i]

\* chart pages of two sheets with more categories than the colourway has
\* colours: the fourth bar has the colour of the first
C9_Witness ==
    \E a, b \in ChartPages :
        /\ pdf[a].sheet # pdf[b].sheet
        /\ Len(pdf[a].categories) > Len(colourways[colour_choice])
        /\ Len(pdf[b].categories) > Len(colourways[colour_choice])
        /\ pdf[a].color[4] = pdf[a].color[1]
        /\ pdf[a].color[2] # pdf[a].color[1]

====
